---- MODULE Spec2Model ----
(***************************************************************************)
(* Training orchestration of EfficientPyTorch's two example drivers:       *)
(*   examples/classifier_mnist/main.py     (prog = "mnist")                *)
(*   examples/classifier_imagenet/main.py  (prog = "imagenet")             *)
(* One worker process (main_worker) is modelled step by step; the file     *)
(* system under the checkpoint prefix outlives the process, so a lineage   *)
(* of runs (a run, a kill or an end, a restart with new options) is part   *)
(* of the model (Spec). The start of a group of workers in imagenet's      *)
(* spawn mode, up to the join of the process group, is SpecSpawn.          *)
(***************************************************************************)
EXTENDS Integers, Sequences, FiniteSets, TLC

\* ------------------------------------------------------------- bounds
\* args.epochs: the total number of epochs of every run of the lineage.
NumEpochs == 2
\* Validation accuracies are drawn from 0..MaxAcc.
MaxAcc == 2
\* Number of processes (runs) started one after the other on the same prefix.
MaxRuns == 2
\* Largest value given on the command line as --start-epoch.
MaxStartArg == 1
\* Largest global rank of the modelled imagenet worker.
MaxRank == 1
\* Spawn mode: at most MaxNodes nodes (args.world_size before the adjustment),
\* each with at most MaxDevices devices (torch.cuda.device_count()).
MaxNodes == 2
MaxDevices == 4
\* len(val_loader): the number of batches of the validation set.
NumBatches == 2

\* ------------------------------------------------------ program constants
\* best_acc1 = 0 at module level.
InitBestAcc1 == 0
\* GradualWarmupScheduler(optimizer, multiplier=2, total_epoch=1, ...): the
\* warm-up length the mnist chain is built with.
WarmupTotalEpoch == 1

VARIABLES
  prog,         \* which driver runs: "mnist" | "imagenet"
  args,         \* the parsed options of the current process
  pc,           \* position of main_worker
  start_epoch,  \* args.start_epoch (mutable: the resume block assigns it)
  epoch,        \* loop variable of the epoch loops
  best_acc1,    \* the module-level global
  is_best,
  acc1,         \* result of the last validate()
  model,        \* model.state_dict(), an opaque blob
  optimizer,    \* optimizer.state_dict(), an opaque blob
  lrSteps,      \* calls of scheduler.step() / scheduler_warmup.step() so far
  dnqSteps,     \* calls of dnq_scheduler.step() so far
  fs,           \* files under the checkpoint prefix: latest and best
  side,         \* other files written by this process: {"map", "pth", "npy"}
  printed,      \* notices printed by this process
  exc,          \* the exception that ended the process, "none" otherwise
  run,          \* ordinal of the current process in the lineage
  obs,          \* observations of this run and lineage (see ObsInit)
  cluster       \* spawn mode: the nodes and the workers their main() started

\* The state of one worker process and of the files of its lineage.
workerVars == <<prog, args, pc, start_epoch, epoch, best_acc1, is_best, acc1, model,
                optimizer, lrSteps, dnqSteps, fs, side, printed, exc, run, obs>>

vars == <<prog, args, pc, start_epoch, epoch, best_acc1, is_best, acc1, model,
          optimizer, lrSteps, dnqSteps, fs, side, printed, exc, run, obs, cluster>>

\* ------------------------------------------------------------- files
NoFile == [kind |-> "none", epoch |-> 0, best_acc1 |-> 0, state_dict |-> 0, optimizer |-> 0]
\* A file whose write was started and not finished.
Partial == [kind |-> "partial", epoch |-> 0, best_acc1 |-> 0, state_dict |-> 0, optimizer |-> 0]

\* A dict that records the epoch just trained instead of the next one.
CheckpointState_ThisEpoch(e, b, m, o) ==
  [kind |-> "ckpt", epoch |-> e, best_acc1 |-> b, state_dict |-> m, optimizer |-> o]

\* The dict handed to save_checkpoint: 'epoch': epoch + 1, 'state_dict',
\* 'best_acc1', 'optimizer' ('arch' is constant over a lineage and left out).
CheckpointState(e, b, m, o) ==
  [kind |-> "ckpt", epoch |-> e + 1, best_acc1 |-> b, state_dict |-> m, optimizer |-> o]

\* os.path.isfile(args.resume)
IsFile(path) == fs[path].kind # "none"

\* ------------------------------------------------------------- options
Paths == {"latest", "best"}

\* With --gen-map the worker returns before it reads any option of the later
\* blocks, so --gen-map is combined with --resume and --evaluate only.
OnlyGenMap(a) ==
  a.gen_map => /\ a.resume_after = "none"
               /\ ~a.quant_bias_scale
               /\ ~a.extract_inner_data
               /\ a.start_epoch = 0
               /\ a.rank = 0
               /\ ~a.distributed

\* args.distributed = args.world_size > 1 or args.multiprocessing_distributed:
\* a worker of global rank above 0 belongs to a distributed run.
RankedIsDistributed(a) == a.rank > 0 => a.distributed

\* --warmup-epoch: a value below args.epochs and args.epochs itself.
WarmupEpochs == {WarmupTotalEpoch, NumEpochs}

\* main_worker reads args.warmup_epoch nowhere, so a warm-up as long as the
\* run is combined with the defaults of the other options only.
OnlyLongWarmup(a) ==
  a.warmup_epoch >= NumEpochs =>
    /\ a.resume = "none"
    /\ a.resume_after = "none"
    /\ ~a.quant_bias_scale
    /\ ~a.evaluate
    /\ ~a.gen_map
    /\ ~a.extract_inner_data
    /\ a.start_epoch = 0

\* The names the driver's model namespaces hold (one stands for all), and a
\* name none of them holds.
ModelNames == {"net"}
Archs == ModelNames \cup {"nosuchnet"}

\* With a name no namespace holds the worker ends at the model creation, before
\* it reads any other option.
OnlyUnknownArch(a) ==
  a.arch \notin ModelNames =>
    /\ a.resume = "none"
    /\ a.resume_after = "none"
    /\ ~a.quant_bias_scale
    /\ ~a.evaluate
    /\ ~a.gen_map
    /\ ~a.extract_inner_data
    /\ a.start_epoch = 0
    /\ a.rank = 0
    /\ ~a.distributed
    /\ a.warmup_epoch = WarmupTotalEpoch

\* The mnist driver has no distributed mode.
MnistArgs ==
  {a \in [resume : {"none"} \cup Paths, resume_after : {"none", "best"},
          quant_bias_scale : BOOLEAN, evaluate : BOOLEAN, gen_map : BOOLEAN,
          extract_inner_data : BOOLEAN, start_epoch : 0..MaxStartArg, rank : {0},
          distributed : {FALSE}, warmup_epoch : WarmupEpochs, arch : Archs] :
     OnlyGenMap(a) /\ OnlyLongWarmup(a) /\ OnlyUnknownArch(a)}

\* Of the options of get_base_parser(), those main_worker itself reads.
ImagenetArgs ==
  {a \in [resume : {"none"} \cup Paths, resume_after : {"none"},
          quant_bias_scale : {FALSE}, evaluate : BOOLEAN, gen_map : BOOLEAN,
          extract_inner_data : {FALSE}, start_epoch : 0..MaxStartArg, rank : 0..MaxRank,
          distributed : BOOLEAN, warmup_epoch : {WarmupTotalEpoch}, arch : Archs] :
     OnlyGenMap(a) /\ RankedIsDistributed(a) /\ OnlyUnknownArch(a)}

ArgsOf(p) == IF p = "mnist" THEN MnistArgs ELSE ImagenetArgs

\* ------------------------------------------------------------- observations
\* What a test harness would record while watching the process:
\*   trained    epochs handed to train() by this process, in order
\*   validated  number of validate() calls of this process
\*   ckptOps    number of writes started on the latest/best files by this process
\*   loaded     the checkpoint the resume block loaded, NoFile if none
\*   runBest    best_acc1 values of the best-file writes completed by this process
\*   maxBest    largest best_acc1 of any completed best-file write of the lineage
\*   lineage    epochs handed to train() by the processes of the lineage, in
\*              order, as long as the lineage is one of clean stops and resumes
\*              (see Stopped, NextProcess); Untracked from then on
\*   weightsOnly  a process of the tracked lineage loaded a checkpoint without
\*              restoring the run state from it
\*   sampler    the epoch last given to train_sampler.set_epoch, -1 before
\*   lrAtLoop   lrSteps when the main loop was entered
\*   batches    number of batches the last validate() call went through
\*   maxSeen    largest accuracy a validate() call of this process returned, -1
\*              before the first; kept for a process that loaded no checkpoint
\* and, until the epoch's loop body ends,
\*   events     the calls of the loop body made so far in this epoch, in order
\*   prevBest   best_acc1 before the epoch's update of is_best/best_acc1
\*   bestAtCall the best file when the epoch's save_checkpoint was entered
\*   saved      the dict handed to the epoch's save_checkpoint call
ObsInit(maxBest) ==
  [trained |-> << >>, validated |-> 0, ckptOps |-> 0, loaded |-> NoFile,
   runBest |-> << >>, maxBest |-> maxBest, prevBest |-> InitBestAcc1,
   bestAtCall |-> NoFile, saved |-> NoFile, sampler |-> -1, events |-> << >>,
   lrAtLoop |-> 0, batches |-> 0, lineage |-> << >>, weightsOnly |-> FALSE,
   maxSeen |-> -1]

Untracked == <<-1>>

Tracked(o) == o.lineage # Untracked

\* The process stops after the checkpoint of the last epoch it trained: the
\* latest file is whole and holds that epoch's dict.
StoppedAfterCheckpoint ==
  \/ obs.trained = << >>
  \/ /\ fs.latest.kind = "ckpt"
     /\ fs.latest.epoch = obs.trained[Len(obs.trained)] + 1

\* What is left of the observations when the process is gone.
Stopped(o) ==
  LET keep == Tracked(o) /\ StoppedAfterCheckpoint IN
    [ObsInit(o.maxBest) EXCEPT !.lineage = IF keep THEN o.lineage ELSE Untracked,
                               !.weightsOnly = keep /\ o.weightsOnly]

\* The options a continue the lineage: a process after the first one resumes
\* from the latest file, and a process that finds no file to load starts at
\* epoch 0.
FollowsOn(a, first) ==
  /\ first \/ a.resume = "latest"
  /\ (a.resume = "none" \/ ~IsFile(a.resume)) => a.start_epoch = 0

\* The observations at the start of a process with options a.
NextProcess(o, a, first) ==
  LET keep == Tracked(o) /\ FollowsOn(a, first) IN
    [ObsInit(o.maxBest) EXCEPT !.lineage = IF keep THEN o.lineage ELSE Untracked,
                               !.weightsOnly = keep /\ o.weightsOnly]

\* The epochs 0, 1, ..., n-1 in this order, each once, for some n <= args.epochs.
CountsUp(q) == Len(q) <= NumEpochs /\ \A i \in 1..Len(q) : q[i] = i - 1

\* One more training pass, for epoch e. The lineage is recorded up to the first
\* epoch that is trained out of turn.
Trained(o, e) ==
  [o EXCEPT !.trained = Append(@, e),
            !.lineage = IF Tracked(o) /\ CountsUp(@) THEN Append(@, e) ELSE @]

\* ------------------------------------------------------------- start
\* A single worker is followed: no group of spawned workers.
NoCluster == [nodes |-> 0, devices |-> 0, node |-> << >>, worker |-> << >>]

Init ==
  /\ cluster = NoCluster
  /\ prog \in {"mnist", "imagenet"}
  /\ args \in ArgsOf(prog)
  /\ pc = "create"
  /\ start_epoch = args.start_epoch
  /\ epoch = 0
  /\ best_acc1 = InitBestAcc1
  /\ is_best = FALSE
  /\ acc1 = 0
  /\ model = 0
  /\ optimizer = 0
  /\ lrSteps = 0
  /\ dnqSteps = 0
  /\ fs = [latest |-> NoFile, best |-> NoFile]
  /\ side = {}
  /\ printed = {}
  /\ exc = "none"
  /\ run = 1
  /\ obs = NextProcess(ObsInit(-1), args, TRUE)


\* ------------------------------------------------------------- helpers
\* A resume that takes the epoch of the last pass, not of the next one.
ResumeEpoch_Previous(ckpt) == ckpt.epoch - 1

\* args.start_epoch = checkpoint['epoch']
ResumeEpoch(ckpt) == ckpt.epoch

\* A resume that leaves best_acc1 at its initial value.
ResumeBest_Initial(ckpt) == InitBestAcc1

\* best_acc1 = checkpoint['best_acc1']
ResumeBest(ckpt) == ckpt.best_acc1

\* The guard of the restoring part of the resume block: if not args.quant_bias_scale
RestoresRunState(a) == ~a.quant_bias_scale

\* A comparison that counts a tie as a new best.
IsBest_Tie(a, b) == a >= b

\* is_best = acc1 > best_acc1
IsBest(a, b) == a > b

\* An update that keeps the last accuracy instead of the largest.
MaxBest_Last(a, b) == a

\* An update that never raises best_acc1.
MaxBest_Kept(a, b) == b

\* best_acc1 = max(acc1, best_acc1)
MaxBest(a, b) == IF a > b THEN a ELSE b

\* A save that copies to the best file whatever is_best says.
CopiesBest_Always(b) == TRUE

\* if is_best: shutil.copyfile(...)
CopiesBest(b) == b

\* if args.evaluate: validate(...); return
AfterSetup(a) == IF a.evaluate THEN "evaluate" ELSE "enter"

\* An evaluate branch without its return: the worker goes on to the loops.
AfterEvaluate_FallThrough == "enter"

\* The return that follows validate() in evaluate-only mode.
AfterEvaluate == "done"

\* A main loop that always starts at 0: range(0, args.epochs).
RangeStart_Zero(s) == 0

\* range(args.start_epoch, args.epochs): the first value of the main loop
RangeStart(s) == s

\* writer = get_summary_writer(args, ngpus_per_node): the metrics owner, rank 0,
\* gets a writer, every other worker gets None.
GetSummaryWriter(a) == a.rank = 0

\* A loop body that calls save_checkpoint whether or not there is a writer.
SavesCheckpoint_Always == TRUE

\* mnist saves unconditionally; imagenet saves if writer is not None.
SavesCheckpoint == prog = "mnist" \/ GetSummaryWriter(args)

\* A step that moves a schedule two epochs on.
SchedulerStep_Twice(n) == n + 2

\* scheduler.step(), dnq_scheduler.step(), scheduler_warmup.step(): the schedule
\* moves one epoch on.
SchedulerStep(n) == n + 1

\* A loop body that starts with the training pass in both drivers.
LoopBodyStart_TrainFirst(p, a) == "train"

\* The first statement of the body of the main loop: mnist calls
\* scheduler_warmup.step(); imagenet calls train_sampler.set_epoch(epoch) if
\* args.distributed, train() otherwise.
LoopBodyStart(p, a) ==
  IF p = "mnist" THEN "step"
  ELSE IF a.distributed THEN "set_epoch" ELSE "train"

\* validate(): for i, (input, target) in enumerate(val_loader), left by `break`
\* after the first batch if args.extract_inner_data.
ValidateBatches(a) == IF a.extract_inner_data THEN 1 ELSE NumBatches

Note(o, f, v) == [o EXCEPT ![f] = v]

\* One more validate() call, with the batches it went through.
Validated(o, a) == [o EXCEPT !.validated = @ + 1, !.batches = ValidateBatches(a)]

\* validate() returned the accuracy v.
Seen(o, v) ==
  [o EXCEPT !.maxSeen = IF o.loaded.kind = "ckpt" THEN @ ELSE IF v > @ THEN v ELSE @]

\* The call c of the loop body is added to the record of this epoch.
Called(o, c) == [o EXCEPT !.events = Append(@, c)]

\* An exception that nothing catches leaves main_worker and ends the process.
Halt(p, e) ==
  /\ pc' = p
  /\ exc' = e

\* ------------------------------------------------------------- create model
\* The model is created; with --gen-map the worker writes the key map of the
\* quantized model and returns.
\* A name no namespace holds: mnist catches the KeyError of its lookup, prints
\* and returns; imagenet catches the KeyError of the torchvision lookup and
\* looks the name up in imagenet_extra_models inside the handler, where the
\* second KeyError is caught by nothing.
CreateModel ==
  /\ pc = "create"
  /\ IF args.arch \notin ModelNames
       THEN IF prog = "mnist"
              THEN /\ printed' = printed \cup {"do not support"}
                   /\ pc' = "done"
                   /\ UNCHANGED <<side, exc>>
              ELSE /\ Halt("aborted", "KeyError")
                   /\ UNCHANGED <<side, printed>>
     ELSE IF args.gen_map
       THEN /\ side' = side \cup {"map"}
            /\ printed' = printed \cup {"Generate key map done"}
            /\ pc' = "done"
            /\ exc' = exc
       ELSE /\ pc' = "resume"
            /\ UNCHANGED <<side, printed, exc>>
  /\ UNCHANGED <<cluster, prog, args, start_epoch, epoch, best_acc1, is_best, acc1, model,
                 optimizer, lrSteps, dnqSteps, fs, run, obs>>

\* ------------------------------------------------------------- resume
\* mnist main_worker, "optionally resume from a checkpoint".
MnistResume ==
  /\ prog = "mnist"
  /\ pc = "resume"
  /\ UNCHANGED <<cluster, prog, args, epoch, is_best, acc1, lrSteps, dnqSteps, fs, run>>
  /\ IF args.resume = "none"
       THEN /\ pc' = "resume_after"
            /\ UNCHANGED <<start_epoch, best_acc1, model, optimizer, side, printed, exc, obs>>
     ELSE IF ~IsFile(args.resume)
       THEN /\ pc' = "resume_after"
            /\ printed' = printed \cup {"no checkpoint found"}
            /\ UNCHANGED <<start_epoch, best_acc1, model, optimizer, side, exc, obs>>
     ELSE IF fs[args.resume].kind = "partial"
       \* torch.load raises on a truncated file; nothing catches it.
       THEN /\ Halt("aborted", "ResumeCorrupt")
            /\ printed' = printed \cup {"loading checkpoint"}
            /\ UNCHANGED <<start_epoch, best_acc1, model, optimizer, side, obs>>
     ELSE LET checkpoint == fs[args.resume] IN
            /\ pc' = "resume_after"
            /\ model' = checkpoint.state_dict
            /\ obs' = [obs EXCEPT !.loaded = checkpoint,
                                  !.weightsOnly = Tracked(obs) /\ (@ \/ ~RestoresRunState(args))]
            /\ exc' = exc
            /\ IF RestoresRunState(args)
                 THEN /\ start_epoch' = ResumeEpoch(checkpoint)
                      /\ best_acc1' = ResumeBest(checkpoint)
                      /\ optimizer' = checkpoint.optimizer
                      /\ printed' = printed \cup {"loading checkpoint", "loaded checkpoint"}
                      \* torch.save(model.state_dict(), '{}.pth'.format(args.arch))
                      /\ side' = side \cup {"pth"}
                 ELSE /\ printed' = printed \cup {"loading checkpoint"}
                      /\ UNCHANGED <<start_epoch, best_acc1, optimizer, side>>

\* imagenet main_worker: process_model(model, optimizer, args). The helper can
\* reach the model, the optimizer and args; the global best_acc1 of main.py is
\* assigned nowhere before the epoch loop.
ImagenetProcessModel ==
  /\ prog = "imagenet"
  /\ pc = "resume"
  /\ UNCHANGED <<cluster, prog, args, epoch, best_acc1, is_best, acc1, lrSteps, dnqSteps, fs, side, run>>
  /\ IF args.resume = "none"
       THEN /\ pc' = "setup"
            /\ UNCHANGED <<start_epoch, model, optimizer, printed, exc, obs>>
     ELSE IF ~IsFile(args.resume)
       THEN /\ pc' = "setup"
            /\ printed' = printed \cup {"no checkpoint found"}
            /\ UNCHANGED <<start_epoch, model, optimizer, exc, obs>>
     ELSE IF fs[args.resume].kind = "partial"
       THEN /\ Halt("aborted", "ResumeCorrupt")
            /\ UNCHANGED <<start_epoch, model, optimizer, printed, obs>>
     ELSE LET checkpoint == fs[args.resume] IN
            /\ pc' = "setup"
            /\ model' = checkpoint.state_dict
            /\ optimizer' = checkpoint.optimizer
            /\ start_epoch' = checkpoint.epoch
            /\ obs' = Note(obs, "loaded", checkpoint)
            /\ printed' = printed \cup {"loaded checkpoint"}
            /\ exc' = exc

\* mnist: if args.resume_after: the weights of a checkpoint are loaded once
\* more, after BN fusion and bias/scale quantization.
MnistResumeAfter ==
  /\ prog = "mnist"
  /\ pc = "resume_after"
  /\ UNCHANGED <<cluster, prog, args, start_epoch, epoch, best_acc1, is_best, acc1, optimizer,
                 lrSteps, dnqSteps, fs, side, run, obs>>
  /\ IF args.resume_after = "none"
       THEN /\ pc' = "setup"
            /\ UNCHANGED <<model, printed, exc>>
     ELSE IF ~IsFile(args.resume_after)
       THEN /\ pc' = "setup"
            /\ printed' = printed \cup {"no checkpoint found"}
            /\ UNCHANGED <<model, exc>>
     ELSE IF fs[args.resume_after].kind = "partial"
       THEN /\ Halt("aborted", "ResumeCorrupt")
            /\ printed' = printed \cup {"loading checkpoint"}
            /\ model' = model
     ELSE /\ pc' = "setup"
          /\ model' = fs[args.resume_after].state_dict
          /\ printed' = printed \cup {"loading checkpoint"}
          /\ exc' = exc

\* ------------------------------------------------------------- setup
\* mnist: extract_inner_data dump, data loaders, the three schedulers.
MnistSetup ==
  /\ prog = "mnist"
  /\ pc = "setup"
  /\ pc' = AfterSetup(args)
  /\ IF args.extract_inner_data
       THEN /\ side' = side \cup {"npy"}
            /\ printed' = printed \cup {"extract inner feature map and weight"}
       ELSE UNCHANGED <<side, printed>>
  /\ lrSteps' = 0
  /\ UNCHANGED <<cluster, prog, args, start_epoch, epoch, best_acc1, is_best, acc1, model,
                 optimizer, dnqSteps, fs, exc, run, obs>>

\* imagenet: loaders, writer, get_lr_scheduler, get_dnq_scheduler.
ImagenetSetup ==
  /\ prog = "imagenet"
  /\ pc = "setup"
  /\ pc' = AfterSetup(args)
  /\ lrSteps' = 0
  /\ dnqSteps' = 0
  /\ UNCHANGED <<cluster, prog, args, start_epoch, epoch, best_acc1, is_best, acc1, model,
                 optimizer, fs, side, printed, exc, run, obs>>

\* if args.evaluate: validate(val_loader, model, criterion, args); return
EvaluateOnly ==
  /\ pc = "evaluate"
  /\ \E a \in 0..MaxAcc : acc1' = a
  /\ obs' = Seen(Validated(obs, args), acc1')
  /\ pc' = AfterEvaluate
  /\ UNCHANGED <<cluster, prog, args, start_epoch, epoch, best_acc1, is_best, model, optimizer,
                 lrSteps, dnqSteps, fs, side, printed, exc, run>>

\* ------------------------------------------------------------- epoch loops
\* The statement after the evaluate check: mnist enters its only loop, imagenet
\* first runs `for epoch in range(0, args.start_epoch)`.
EnterLoops ==
  /\ pc = "enter"
  /\ IF prog = "mnist"
       THEN /\ pc' = "loop"
            /\ epoch' = RangeStart(start_epoch)
            /\ obs' = Note(obs, "lrAtLoop", lrSteps)
       ELSE /\ pc' = "skip"
            /\ epoch' = 0
            /\ obs' = obs
  /\ UNCHANGED <<cluster, prog, args, start_epoch, best_acc1, is_best, acc1, model, optimizer,
                 lrSteps, dnqSteps, fs, side, printed, exc, run>>

\* A skip-ahead loop that also validates each skipped epoch and updates
\* best_acc1 from the result.
SkipAhead_Validates ==
  /\ prog = "imagenet"
  /\ pc = "skip"
  /\ IF epoch < start_epoch
       THEN /\ lrSteps' = SchedulerStep(lrSteps)
            /\ epoch' = epoch + 1
            /\ pc' = "skip"
            /\ \E a \in 0..MaxAcc : /\ acc1' = a
                                    /\ best_acc1' = MaxBest(a, best_acc1)
            /\ obs' = Validated(obs, args)
       ELSE /\ lrSteps' = lrSteps
            /\ epoch' = RangeStart(start_epoch)
            /\ pc' = "loop"
            /\ obs' = Note(obs, "lrAtLoop", lrSteps)
            /\ UNCHANGED <<acc1, best_acc1>>
  /\ UNCHANGED <<cluster, prog, args, start_epoch, is_best, model, optimizer,
                 dnqSteps, fs, side, printed, exc, run>>

\* imagenet: for epoch in range(0, args.start_epoch): scheduler.step()
SkipAhead ==
  /\ prog = "imagenet"
  /\ pc = "skip"
  /\ IF epoch < start_epoch
       THEN /\ lrSteps' = SchedulerStep(lrSteps)
            /\ epoch' = epoch + 1
            /\ pc' = "skip"
            /\ obs' = obs
       ELSE /\ lrSteps' = lrSteps
            /\ epoch' = RangeStart(start_epoch)
            /\ pc' = "loop"
            /\ obs' = Note(obs, "lrAtLoop", lrSteps)
  /\ UNCHANGED <<cluster, prog, args, start_epoch, best_acc1, is_best, acc1, model, optimizer,
                 dnqSteps, fs, side, printed, exc, run>>

\* for epoch in range(args.start_epoch, args.epochs): the loop test, and the
\* first statement of the body if the loop goes on (see LoopBodyStart).
LoopHead ==
  /\ pc = "loop"
  /\ pc' = IF epoch < NumEpochs THEN LoopBodyStart(prog, args) ELSE "done"
  /\ UNCHANGED <<cluster, prog, args, start_epoch, epoch, best_acc1, is_best, acc1, model,
                 optimizer, lrSteps, dnqSteps, fs, side, printed, exc, run, obs>>

\* imagenet: if args.distributed: train_sampler.set_epoch(epoch)
SetEpoch ==
  /\ prog = "imagenet"
  /\ pc = "set_epoch"
  /\ obs' = Called(Note(obs, "sampler", epoch), "set_epoch")
  /\ pc' = "train"
  /\ UNCHANGED <<cluster, prog, args, start_epoch, epoch, best_acc1, is_best, acc1, model,
                 optimizer, lrSteps, dnqSteps, fs, side, printed, exc, run>>

\* mnist: scheduler_warmup.step(), before train()
MnistStep ==
  /\ prog = "mnist"
  /\ pc = "step"
  /\ lrSteps' = SchedulerStep(lrSteps)
  /\ obs' = Called(obs, "step")
  /\ pc' = "train"
  /\ UNCHANGED <<cluster, prog, args, start_epoch, epoch, best_acc1, is_best, acc1, model,
                 optimizer, dnqSteps, fs, side, printed, exc, run>>

\* train(train_loader, model, criterion, optimizer, epoch, args, writer)
Train ==
  /\ pc = "train"
  /\ model' = model + 1
  /\ optimizer' = optimizer + 1
  /\ obs' = Called(Trained(obs, epoch), "train")
  /\ pc' = IF prog = "mnist" THEN "validate" ELSE "step"
  /\ UNCHANGED <<cluster, prog, args, start_epoch, epoch, best_acc1, is_best, acc1, lrSteps,
                 dnqSteps, fs, side, printed, exc, run>>

\* imagenet: scheduler.step(); dnq_scheduler.step(), after train()
ImagenetStep ==
  /\ prog = "imagenet"
  /\ pc = "step"
  /\ lrSteps' = SchedulerStep(lrSteps)
  /\ dnqSteps' = SchedulerStep(dnqSteps)
  /\ obs' = Called(obs, "step")
  /\ pc' = "validate"
  /\ UNCHANGED <<cluster, prog, args, start_epoch, epoch, best_acc1, is_best, acc1, model,
                 optimizer, fs, side, printed, exc, run>>

\* acc1 = validate(val_loader, model, criterion, args)
Validate ==
  /\ pc = "validate"
  /\ \E a \in 0..MaxAcc : acc1' = a
  /\ obs' = Called(Seen(Validated(obs, args), acc1'), "validate")
  /\ pc' = "update"
  /\ UNCHANGED <<cluster, prog, args, start_epoch, epoch, best_acc1, is_best, model, optimizer,
                 lrSteps, dnqSteps, fs, side, printed, exc, run>>

\* is_best = acc1 > best_acc1; best_acc1 = max(acc1, best_acc1)
UpdateBest ==
  /\ pc = "update"
  /\ is_best' = IsBest(acc1, best_acc1)
  /\ best_acc1' = MaxBest(acc1, best_acc1)
  /\ obs' = Called(Note(obs, "prevBest", best_acc1), "update")
  /\ pc' = IF SavesCheckpoint THEN "save" ELSE "next"
  /\ UNCHANGED <<cluster, prog, args, start_epoch, epoch, acc1, model, optimizer, lrSteps,
                 dnqSteps, fs, side, printed, exc, run>>

\* The end of the loop body: the for statement takes the next value.
NextEpoch ==
  /\ pc \in {"saved", "next"}
  /\ epoch' = epoch + 1
  /\ pc' = "loop"
  /\ obs' = [obs EXCEPT !.prevBest = InitBestAcc1, !.bestAtCall = NoFile, !.saved = NoFile,
                        !.events = << >>]
  /\ UNCHANGED <<cluster, prog, args, start_epoch, best_acc1, is_best, acc1, model, optimizer,
                 lrSteps, dnqSteps, fs, side, printed, exc, run>>

\* ------------------------------------------------------------- save_checkpoint
\* save_checkpoint of the mnist driver. The imagenet driver calls the helper of
\* the same name and signature from the examples package; it is taken to be
\* this function.
\* torch.save(state, prefix + filename) opens the file under its final name for
\* writing, which truncates it, and then streams the pickled dict into it.
TorchSaveOpen ==
  /\ pc = "save"
  /\ fs' = [fs EXCEPT !.latest = Partial]
  /\ obs' = [obs EXCEPT !.saved = CheckpointState(epoch, best_acc1, model, optimizer),
                        !.bestAtCall = fs.best,
                        !.ckptOps = @ + 1,
                        !.events = Append(@, "save")]
  /\ pc' = "save_write"
  /\ UNCHANGED <<cluster, prog, args, start_epoch, epoch, best_acc1, is_best, acc1, model,
                 optimizer, lrSteps, dnqSteps, side, printed, exc, run>>

\* torch.save returns: the file holds the whole dict. Then `if is_best:`.
TorchSaveWrite ==
  /\ pc = "save_write"
  /\ fs' = [fs EXCEPT !.latest = obs.saved]
  /\ pc' = IF CopiesBest(is_best) THEN "copy" ELSE "saved"
  /\ UNCHANGED <<cluster, prog, args, start_epoch, epoch, best_acc1, is_best, acc1, model,
                 optimizer, lrSteps, dnqSteps, side, printed, exc, run, obs>>

\* torch.save raises (the directory is gone, the disk is full): main_worker has
\* no try around save_checkpoint, so the exception leaves the function. A file
\* already opened stays as far as it was written.
TorchSaveFails ==
  /\ pc \in {"save", "save_write"}
  /\ Halt("aborted", "CheckpointWriteFailure")
  /\ UNCHANGED <<cluster, prog, args, start_epoch, epoch, best_acc1, is_best, acc1, model,
                 optimizer, lrSteps, dnqSteps, fs, side, printed, run, obs>>

\* shutil.copyfile(prefix + filename, prefix + 'best.pth.tar') opens the
\* destination under its final name for writing, then copies the bytes.
CopyOpen ==
  /\ pc = "copy"
  /\ fs' = [fs EXCEPT !.best = Partial]
  /\ obs' = Note(obs, "ckptOps", obs.ckptOps + 1)
  /\ pc' = "copy_write"
  /\ UNCHANGED <<cluster, prog, args, start_epoch, epoch, best_acc1, is_best, acc1, model,
                 optimizer, lrSteps, dnqSteps, side, printed, exc, run>>

CopyWrite ==
  /\ pc = "copy_write"
  /\ fs' = [fs EXCEPT !.best = fs.latest]
  /\ obs' = [obs EXCEPT !.runBest = Append(@, fs.latest.best_acc1),
                        !.maxBest = IF fs.latest.best_acc1 > @ THEN fs.latest.best_acc1 ELSE @]
  /\ pc' = "saved"
  /\ UNCHANGED <<cluster, prog, args, start_epoch, epoch, best_acc1, is_best, acc1, model,
                 optimizer, lrSteps, dnqSteps, side, printed, exc, run>>

\* ------------------------------------------------------------- process life
\* main_worker returned ("done") or raised ("aborted"); the process is gone
\* after a kill ("crashed") or after its exit ("exited").
Ended == pc \in {"done", "aborted", "crashed", "exited"}

NoArgs ==
  [resume |-> "none", resume_after |-> "none", quant_bias_scale |-> FALSE,
   evaluate |-> FALSE, gen_map |-> FALSE, extract_inner_data |-> FALSE,
   start_epoch |-> 0, rank |-> 0, distributed |-> FALSE,
   warmup_epoch |-> WarmupTotalEpoch, arch |-> "net"]

\* The process is killed (signal, power loss, node failure): its memory is gone,
\* the files stay as they are.
Crash ==
  /\ ~Ended
  /\ pc' = "crashed"
  /\ args' = NoArgs
  /\ start_epoch' = 0
  /\ epoch' = 0
  /\ best_acc1' = InitBestAcc1
  /\ is_best' = FALSE
  /\ acc1' = 0
  /\ model' = 0
  /\ optimizer' = 0
  /\ lrSteps' = 0
  /\ dnqSteps' = 0
  /\ side' = {}
  /\ printed' = {}
  /\ exc' = "killed"
  /\ obs' = Stopped(obs)
  /\ UNCHANGED <<cluster, prog, fs, run>>

\* main() returns or the exception reaches the top level: the process exits and
\* its memory is released; the files stay.
Exit ==
  /\ pc \in {"done", "aborted"}
  /\ pc' = "exited"
  /\ args' = NoArgs
  /\ start_epoch' = 0
  /\ epoch' = 0
  /\ best_acc1' = InitBestAcc1
  /\ is_best' = FALSE
  /\ acc1' = 0
  /\ model' = 0
  /\ optimizer' = 0
  /\ lrSteps' = 0
  /\ dnqSteps' = 0
  /\ side' = {}
  /\ printed' = {}
  /\ exc' = "none"
  /\ obs' = Stopped(obs)
  /\ UNCHANGED <<cluster, prog, fs, run>>

\* The user starts the program again on the same prefix, with options of their
\* choice: a new process, the module-level state as at import.
Restart ==
  /\ pc \in {"crashed", "exited"}
  /\ run < MaxRuns
  /\ run' = run + 1
  /\ args' \in ArgsOf(prog)
  /\ pc' = "create"
  /\ start_epoch' = args'.start_epoch
  /\ epoch' = 0
  /\ best_acc1' = InitBestAcc1
  /\ is_best' = FALSE
  /\ acc1' = 0
  /\ model' = 0
  /\ optimizer' = 0
  /\ lrSteps' = 0
  /\ dnqSteps' = 0
  /\ side' = {}
  /\ printed' = {}
  /\ exc' = "none"
  /\ obs' = NextProcess(obs, args', FALSE)
  /\ UNCHANGED <<cluster, prog, fs>>

Next ==
  \/ CreateModel
  \/ MnistResume
  \/ ImagenetProcessModel
  \/ MnistResumeAfter
  \/ MnistSetup
  \/ ImagenetSetup
  \/ EvaluateOnly
  \/ EnterLoops
  \/ SkipAhead
  \/ LoopHead
  \/ SetEpoch
  \/ MnistStep
  \/ Train
  \/ ImagenetStep
  \/ Validate
  \/ UpdateBest
  \/ NextEpoch
  \/ TorchSaveOpen
  \/ TorchSaveWrite
  \/ TorchSaveFails
  \/ CopyOpen
  \/ CopyWrite
  \/ Crash
  \/ Exit
  \/ Restart

Spec == Init /\ [][Next]_vars

\* The statements of the worker itself: a running process goes on to its next
\* statement, and every call it makes returns or raises. A kill, a failing write
\* and a restart by the user come from outside and are never bound to happen.
WorkerStep ==
  \/ CreateModel
  \/ MnistResume
  \/ ImagenetProcessModel
  \/ MnistResumeAfter
  \/ MnistSetup
  \/ ImagenetSetup
  \/ EvaluateOnly
  \/ EnterLoops
  \/ SkipAhead
  \/ LoopHead
  \/ SetEpoch
  \/ MnistStep
  \/ Train
  \/ ImagenetStep
  \/ Validate
  \/ UpdateBest
  \/ NextEpoch
  \/ TorchSaveOpen
  \/ TorchSaveWrite
  \/ CopyOpen
  \/ CopyWrite
  \/ Exit

\* The lineage of runs with a worker that keeps running while it can.
SpecLive == Init /\ [][Next]_vars /\ WF_vars(WorkerStep)

\* ------------------------------------------------------------- spawn mode
\* imagenet main() with --multiprocessing-distributed, on each of M nodes with D
\* devices; the node of node rank r is started with --rank r --world-size M.
\* A worker is "absent" until its node's main() spawned it, "entered" when
\* main_worker starts with its copy of args, "joined" after init_process_group.

\* A rank that adds the local index to the node rank without the stride.
GlobalRank_NoStride(rank, ngpus_per_node, gpu) == rank + gpu

\* args.rank = args.rank * ngpus_per_node + gpu
GlobalRank(rank, ngpus_per_node, gpu) == rank * ngpus_per_node + gpu

\* args.world_size = ngpus_per_node * args.world_size
WorldSize(ngpus_per_node, world_size) == ngpus_per_node * world_size

Nodes == 0..(cluster.nodes - 1)
Devices == 0..(cluster.devices - 1)
Workers == Nodes \X Devices

ClusterOf(M, D) ==
  [nodes |-> M, devices |-> D,
   node |-> [r \in 0..(M - 1) |-> [rank |-> r, world_size |-> M, spawned |-> FALSE]],
   worker |-> [w \in (0..(M - 1)) \X (0..(D - 1)) |->
                 [pc |-> "absent", gpu |-> -1, rank |-> -1, world_size |-> -1]]]

InitSpawn ==
  /\ \E M \in 1..MaxNodes, D \in 1..MaxDevices : cluster = ClusterOf(M, D)
  /\ prog = "imagenet"
  /\ args = NoArgs
  /\ pc = "exited"
  /\ start_epoch = 0
  /\ epoch = 0
  /\ best_acc1 = InitBestAcc1
  /\ is_best = FALSE
  /\ acc1 = 0
  /\ model = 0
  /\ optimizer = 0
  /\ lrSteps = 0
  /\ dnqSteps = 0
  /\ fs = [latest |-> NoFile, best |-> NoFile]
  /\ side = {}
  /\ printed = {}
  /\ exc = "none"
  /\ run = MaxRuns
  /\ obs = ObsInit(-1)

\* main() on node r: the world size is adjusted and mp.spawn starts one
\* main_worker per device, each with its local index and a copy of args.
NodeMain(r) ==
  /\ ~cluster.node[r].spawned
  /\ LET ws == WorldSize(cluster.devices, cluster.node[r].world_size) IN
       cluster' = [cluster EXCEPT
         !.node[r] = [@ EXCEPT !.world_size = ws, !.spawned = TRUE],
         !.worker = [w \in Workers |->
                       IF w[1] = r
                         THEN [pc |-> "entered", gpu |-> w[2],
                               rank |-> cluster.node[r].rank, world_size |-> ws]
                         ELSE @[w]]]
  /\ UNCHANGED workerVars

\* main_worker of the worker w: the global rank is computed and the worker
\* joins the process group with it.
WorkerJoin(w) ==
  /\ cluster.worker[w].pc = "entered"
  /\ cluster' = [cluster EXCEPT
       !.worker[w] = [@ EXCEPT !.pc = "joined",
                               !.rank = GlobalRank(@, cluster.devices, cluster.worker[w].gpu)]]
  /\ UNCHANGED workerVars

NextSpawn ==
  \/ \E r \in Nodes : NodeMain(r)
  \/ \E w \in Workers : WorkerJoin(w)

SpecSpawn == InitSpawn /\ [][NextSpawn]_vars

\* ------------------------------------------------------------- claims
Last(q) == q[Len(q)]

Loaded == obs.loaded.kind = "ckpt"

\* The first training pass of this process is about to run.
FirstTrain == pc = "train" /\ obs.trained = << >>

\* C1: after a resume that sets the start epoch to N, at the first training
\* pass every schedule (learning rate, bit width) has been stepped as often as
\* in an uninterrupted run at the training pass of epoch N. An uninterrupted
\* mnist run has stepped N + 1 times there (it steps before it trains), an
\* uninterrupted imagenet run N times, each of its two schedules.
C1_ResumeEqualsUninterrupted ==
  (FirstTrain /\ Loaded /\ start_epoch = obs.loaded.epoch)
    => IF prog = "mnist"
         THEN lrSteps = epoch + 1
         ELSE lrSteps = epoch /\ dnqSteps = epoch

\* C2 as stated: every successful checkpoint load sets start_epoch to the
\* checkpoint's epoch, and the first training pass is for that epoch.
C2_EveryLoadSetsStartEpoch ==
  Loaded =>
    /\ start_epoch = obs.loaded.epoch
    /\ obs.trained # << >> => obs.trained[1] = obs.loaded.epoch

\* C2 amended: a successful load without --quant-bias-scale sets start_epoch to
\* the checkpoint's epoch N, and the first training pass of the process, if it
\* runs one, is for epoch N.
C2_LoadSetsStartEpoch ==
  (Loaded /\ RestoresRunState(args)) =>
    /\ start_epoch = obs.loaded.epoch
    /\ obs.trained # << >> => obs.trained[1] = obs.loaded.epoch

\* C2 witness: resumed at epoch 1 of the run, and the first pass was epoch 1.
C2_Witness ==
  /\ prog = "mnist"
  /\ Loaded
  /\ RestoresRunState(args)
  /\ obs.loaded.epoch = 1
  /\ args.start_epoch = 0
  /\ obs.trained = <<1>>

\* C3: while one process runs, no step lowers best_acc1, and the best_acc1
\* values of its successive best-file writes never go down.
C3_BestNeverDecreases ==
  [][(run' = run /\ pc' \notin {"crashed", "exited"}) =>
       /\ best_acc1' >= best_acc1
       /\ \A i, j \in 1..Len(obs'.runBest) : i < j => obs'.runBest[i] <= obs'.runBest[j]]_vars

\* C3 witness: a finished run with two best writes, the second one higher.
C3_Witness ==
  /\ Len(obs.runBest) = 2
  /\ obs.runBest[1] < obs.runBest[2]
  /\ pc = "done"

\* C4: in a lineage, the best_acc1 of every best-file write of a process that
\* resumed from a checkpoint is at least that of every earlier best-file write,
\* the ones of earlier processes included: the last write holds the maximum.
C4_LineageBestNoRegression ==
  (Loaded /\ obs.runBest # << >>) => Last(obs.runBest) >= obs.maxBest

\* is_best, best_acc1 and acc1 are those of this epoch's update.
AfterUpdate == pc \in {"save", "save_write", "copy", "copy_write", "saved", "next"}

\* C5: is_best is true exactly when the epoch's accuracy is strictly greater
\* than the best before the epoch; otherwise best_acc1 is left as it was.
C5_IsBestIffStrictlyGreater ==
  AfterUpdate =>
    /\ is_best <=> acc1 > obs.prevBest
    /\ acc1 <= obs.prevBest => best_acc1 = obs.prevBest
    /\ acc1 > obs.prevBest => best_acc1 = acc1

\* C5 witness: a tie with a positive best is not a best.
C5_Witness ==
  /\ AfterUpdate
  /\ acc1 = obs.prevBest
  /\ acc1 > 0
  /\ ~is_best
  /\ Len(obs.trained) = 2

\* C6: when save_checkpoint returns, the latest file holds the dict it was
\* given; if is_best the best file equals the latest file, and if not the best
\* file is what it was when the call began.
C6_SaveWritesLatestAndBestIffIsBest ==
  pc = "saved" =>
    /\ fs.latest = obs.saved
    /\ fs.latest = CheckpointState(epoch, best_acc1, model, optimizer)
    /\ is_best => fs.best = fs.latest
    /\ ~is_best => fs.best = obs.bestAtCall

\* C6 witness: a call with is_best false that left an older best file alone.
C6_Witness ==
  /\ pc = "saved"
  /\ ~is_best
  /\ fs.best.kind = "ckpt"
  /\ fs.best # fs.latest

\* C7: whenever the process is killed, each checkpoint file is whole: the old
\* content or the new one, never a partly written file.
C7_CrashLeavesWholeFiles ==
  pc = "crashed" => fs.latest.kind # "partial" /\ fs.best.kind # "partial"

\* C8: a failed checkpoint write does not end the run.
C8_WriteFailureNonFatal ==
  ~(pc = "aborted" /\ exc = "CheckpointWriteFailure")

\* The resume block ran with a path that named no file.
ResumeNotFound ==
  /\ args.resume # "none"
  /\ ~args.gen_map
  /\ pc \notin {"create", "resume"}
  /\ ~Loaded
  /\ exc # "ResumeCorrupt"

\* C9 as stated: with no file at the resume path, start_epoch is 0 and the
\* first training pass is for epoch 0.
C9_NotFoundStartsAtZero ==
  ResumeNotFound =>
    /\ start_epoch = 0
    /\ obs.trained # << >> => obs.trained[1] = 0

\* C9 amended: with no file at the resume path the notice is printed, nothing
\* is raised by the resume block, start_epoch keeps its command-line value,
\* best_acc1 its initial value, and the first training pass is for that epoch.
C9_NotFoundIsFreshRun ==
  ResumeNotFound =>
    /\ "no checkpoint found" \in printed
    /\ "loaded checkpoint" \notin printed
    /\ start_epoch = args.start_epoch
    /\ pc \in {"resume_after", "setup"} => exc = "none"
    /\ obs.validated = 0 => best_acc1 = InitBestAcc1
    /\ obs.trained # << >> => obs.trained[1] = args.start_epoch

\* C9 witness: nothing at the resume path, default --start-epoch, epoch 0 trained.
C9_Witness ==
  /\ ResumeNotFound
  /\ args.start_epoch = 0
  /\ obs.trained = <<0>>
  /\ exc = "none"

IsPrefix(q, r) == Len(q) <= Len(r) /\ \A i \in 1..Len(q) : q[i] = r[i]

\* The calls a whole loop body makes, first the sampler (distributed only),
\* last the save (only where the worker saves).
SamplerFirst == IF args.distributed THEN <<"set_epoch">> ELSE << >>
SaveLast == IF SavesCheckpoint THEN <<"save">> ELSE << >>

\* The order the two drivers' loop bodies are written in.
TrainThenStep == SamplerFirst \o <<"train", "step", "validate", "update">> \o SaveLast
StepThenTrain == <<"step", "train", "validate", "update", "save">>

\* The loop body ran to its end (the for statement is about to advance).
BodyDone == pc \in {"saved", "next"}

\* C11 as stated: in every epoch of the training loop of either driver the calls
\* come in the order sampler (distributed only), training pass, schedule step,
\* validation, best update, save; the schedule is stepped after the epoch's
\* training pass and before its validation.
C11_ScheduleStepsAfterTraining ==
  /\ IsPrefix(obs.events, TrainThenStep)
  /\ BodyDone => obs.events = TrainThenStep

\* C11 amended: the imagenet loop body calls sampler (distributed only), training
\* pass, schedule step, validation, best update, save (rank 0 only), in this
\* order; the mnist loop body calls schedule step, training pass, validation,
\* best update, save: its schedule is stepped before the epoch's training pass.
C11_EpochOrder ==
  LET order == IF prog = "mnist" THEN StepThenTrain ELSE TrainThenStep IN
    /\ IsPrefix(obs.events, order)
    /\ BodyDone => obs.events = order

\* Both drivers finished the body of a second epoch, imagenet as a distributed
\* worker that told the sampler the epoch.
C11_Witness ==
  /\ BodyDone
  /\ epoch = 1
  /\ Len(obs.trained) = 2
  /\ prog = "imagenet" => args.distributed /\ obs.sampler = 1 /\ "save" \in {obs.events[i] : i \in 1..Len(obs.events)}
  /\ prog = "mnist" => obs.events[1] = "step"

InEvents(c) == \E i \in 1..Len(obs.events) : obs.events[i] = c

\* Epochs of the main loop this process has completed: those whose training pass
\* ran, less the one whose body is still running.
CompletedEpochs ==
  Len(obs.trained) - (IF InEvents("train") /\ ~BodyDone THEN 1 ELSE 0)

\* C12: once the main loop is entered, with k epochs completed the learning-rate
\* schedule and (imagenet; mnist has none) the bit-width schedule have each been
\* stepped exactly k times since the loop was entered, at the loop test and
\* after the loop; inside a body each has k or k + 1 steps, k + 1 from the
\* body's step call on.
C12_OneStepPerEpoch ==
  pc # "skip" =>
    LET k == CompletedEpochs
        now == IF InEvents("step") /\ ~BodyDone THEN 1 ELSE 0
    IN  /\ lrSteps - obs.lrAtLoop = k + now
        /\ prog = "imagenet" => dnqSteps = k + now
        /\ pc \in {"loop", "done"} => now = 0 /\ k = Len(obs.trained)

\* A resumed imagenet worker that skipped ahead one epoch and completed one.
C12_Witness ==
  /\ prog = "imagenet"
  /\ pc = "done"
  /\ obs.lrAtLoop = 1
  /\ Len(obs.trained) = NumEpochs - 1
  /\ dnqSteps = NumEpochs - 1
  /\ lrSteps = NumEpochs

\* The epochs range(first, args.epochs) yields, in order.
EpochRange(first) ==
  IF first >= NumEpochs THEN << >>
  ELSE [i \in 1..(NumEpochs - first) |-> first + i - 1]

InSave == pc \in {"save", "save_write", "copy", "copy_write", "saved"}

Joined == {w \in Workers : cluster.worker[w].pc = "joined"}

\* C14: in spawn mode with D devices per node and M nodes each node starts D
\* workers; the worker of local index g on the node of node rank r joins with
\* global rank r*D+g and world size M*D; the ranks of the workers that joined
\* are pairwise distinct, and once all have joined they are exactly 0..M*D-1.
C14_SpawnRanks ==
  LET M == cluster.nodes
      D == cluster.devices
  IN  /\ \A r \in Nodes :
           Cardinality({w \in Workers : w[1] = r /\ cluster.worker[w].pc # "absent"})
             = IF cluster.node[r].spawned THEN D ELSE 0
      /\ \A w \in Joined : /\ cluster.worker[w].rank = w[1] * D + w[2]
                           /\ cluster.worker[w].world_size = M * D
                           /\ cluster.worker[w].rank \in 0..(M * D - 1)
      /\ \A v, w \in Joined : v # w => cluster.worker[v].rank # cluster.worker[w].rank
      /\ Joined = Workers => {cluster.worker[w].rank : w \in Workers} = 0..(M * D - 1)

\* Two nodes with two devices each: four workers joined, with ranks 0, 1, 2, 3.
C14_Witness ==
  /\ cluster.nodes = 2
  /\ cluster.devices = 2
  /\ Joined = Workers
  /\ {cluster.worker[w].rank : w \in Workers} = {0, 1, 2, 3}
  /\ cluster.worker[<<1, 0>>].rank = 2

\* The mnist resume block has just loaded a checkpoint file.
MnistResumed == prog = "mnist" /\ pc = "resume_after" /\ Loaded

\* C15 as stated: after a resume from a saved file the run holds exactly the
\* saved values: epoch, best_acc1, model blob and optimizer blob.
C15_ResumeRestoresAll ==
  MnistResumed =>
    /\ obs.loaded = fs[args.resume]
    /\ start_epoch = obs.loaded.epoch
    /\ best_acc1 = obs.loaded.best_acc1
    /\ model = obs.loaded.state_dict
    /\ optimizer = obs.loaded.optimizer

\* C15 amended: after the mnist resume block loaded a saved file, the model
\* equals the saved model blob; without --quant-bias-scale the epoch, best_acc1
\* and the optimizer state equal the saved values as well; with
\* --quant-bias-scale they are those of a fresh run.
C15_ResumeRestores ==
  MnistResumed =>
    /\ obs.loaded = fs[args.resume]
    /\ model = obs.loaded.state_dict
    /\ IF RestoresRunState(args)
         THEN /\ start_epoch = obs.loaded.epoch
              /\ best_acc1 = obs.loaded.best_acc1
              /\ optimizer = obs.loaded.optimizer
         ELSE /\ start_epoch = args.start_epoch
              /\ best_acc1 = InitBestAcc1
              /\ optimizer = 0

\* A resume from the best file, which is older than the latest file, restored a
\* best_acc1 above the initial value and an epoch other than --start-epoch.
C15_Witness ==
  /\ MnistResumed
  /\ RestoresRunState(args)
  /\ args.resume = "best"
  /\ fs.best # fs.latest
  /\ best_acc1 > InitBestAcc1
  /\ start_epoch # args.start_epoch
  /\ optimizer > 0

\* C16: with --extract-inner-data every validate() call goes through exactly
\* one batch, and the value it returns is not used as the epoch's metric: it
\* never makes is_best true, never changes best_acc1, and the dict handed to
\* save_checkpoint carries the best_acc1 from before the validation.
C16_EarlyStopValueUnused ==
  args.extract_inner_data =>
    /\ obs.validated > 0 => obs.batches = 1
    /\ ~is_best
    /\ AfterUpdate => best_acc1 = obs.prevBest
    /\ obs.saved.kind = "ckpt" => obs.saved.best_acc1 = obs.prevBest

\* C17: a run whose warm-up is as long as or longer than its total number of
\* epochs (the --warmup-epoch option, or the warm-up length the chain is built
\* with) is rejected before any training pass, schedule step or checkpoint
\* write.
C17_LongWarmupRejected ==
  (args.warmup_epoch >= NumEpochs \/ WarmupTotalEpoch >= NumEpochs) =>
    /\ obs.trained = << >>
    /\ lrSteps = 0
    /\ obs.ckptOps = 0

C19_SkipAheadStepsScheduleOnly ==
  [][pc = "skip" =>
       /\ obs.trained = << >>
       /\ obs.validated = 0
       /\ obs.ckptOps = 0
       /\ lrSteps = epoch
       /\ pc' # "crashed" =>
            /\ pc' \in {"skip", "loop"}
            /\ UNCHANGED <<best_acc1, is_best, acc1, model, optimizer, dnqSteps, fs, side>>
            /\ obs'.trained = obs.trained
            /\ obs'.validated = obs.validated
            /\ obs'.ckptOps = obs.ckptOps
            /\ lrSteps' = IF pc' = "skip" THEN lrSteps + 1 ELSE lrSteps]_vars

\* A resumed worker stepped the schedule through the skipped epoch; the best of
\* the file it loaded is above its own best_acc1, which is still the initial one.
C19_Witness ==
  /\ pc = "skip"
  /\ start_epoch >= 1
  /\ epoch = start_epoch
  /\ lrSteps = start_epoch
  /\ Loaded
  /\ obs.loaded.best_acc1 > best_acc1

\* The worker came to the end of a training run (not --evaluate, not --gen-map).
TrainingDone == pc = "done" /\ ~args.evaluate /\ ~args.gen_map /\ args.arch \in ModelNames

\* C20 as stated: the checkpoint written at the end of epoch e records e + 1,
\* and in a lineage that starts at epoch 0, whose processes stop after an
\* epoch's checkpoint and whose later processes resume from the latest file,
\* every epoch of 0..epochs-1 is trained exactly once, in increasing order.
C20_EveryEpochOnce ==
  /\ pc = "saved" => fs.latest.epoch = epoch + 1
  /\ Tracked(obs) =>
       /\ CountsUp(obs.lineage)
       /\ TrainingDone => Len(obs.lineage) = NumEpochs

\* C20 amended: the same, for a lineage whose resuming processes restore the run
\* state from the file they load, i.e. run without --quant-bias-scale.
C20_EveryEpochOnceRestoring ==
  /\ pc = "saved" => fs.latest.epoch = epoch + 1
  /\ (Tracked(obs) /\ ~obs.weightsOnly) =>
       /\ CountsUp(obs.lineage)
       /\ TrainingDone => Len(obs.lineage) = NumEpochs

\* The second process of a lineage resumed from the latest file, which the
\* first had written at the end of epoch 0, and trained the remaining epochs.
C20_Witness ==
  /\ run = 2
  /\ Loaded
  /\ obs.loaded.epoch = 1
  /\ TrainingDone
  /\ Tracked(obs)
  /\ ~obs.weightsOnly
  /\ Len(obs.lineage) = NumEpochs
  /\ Len(obs.trained) = NumEpochs - 1

\* ------------------------------------------------------------- C21..C22
\* The largest of the initial best_acc1 and the accuracies validate() returned
\* to this process so far.
BestSoFar == IF obs.maxSeen > InitBestAcc1 THEN obs.maxSeen ELSE InitBestAcc1

\* C21: in a process that loaded no checkpoint, at the return of every
\* save_checkpoint call the latest file's best_acc1 is the largest of the
\* initial best_acc1 and the accuracies seen so far; if the process has written
\* the best file, that file's best_acc1 is the same value and its epoch is at
\* most the latest file's epoch.
C21_LatestAndBestAgree ==
  (pc = "saved" /\ ~Loaded) =>
    /\ fs.latest.kind = "ckpt"
    /\ fs.latest.best_acc1 = BestSoFar
    /\ obs.runBest # << >> =>
         /\ fs.best.kind = "ckpt"
         /\ fs.best.best_acc1 = BestSoFar
         /\ fs.best.epoch <= fs.latest.epoch

\* After the save of the second epoch, whose accuracy was below that of the
\* first: the best file is the older of the two and both carry the first
\* epoch's accuracy.
C21_Witness ==
  /\ pc = "saved"
  /\ ~Loaded
  /\ epoch = 1
  /\ acc1 < obs.maxSeen
  /\ obs.runBest # << >>
  /\ fs.best.epoch < fs.latest.epoch
  /\ fs.best.best_acc1 = fs.latest.best_acc1
  /\ fs.latest.best_acc1 > InitBestAcc1

\* The main loop has just been entered: epoch is the first value of its range.
LoopEntered == pc = "loop" /\ obs.trained = << >> /\ epoch = RangeStart(start_epoch)

\* The worker returned after one training pass, one validation and (where it
\* saves) one save per epoch of range(start_epoch, args.epochs), in order.
Completed ==
  /\ pc = "done"
  /\ obs.trained = EpochRange(start_epoch)
  /\ obs.validated = Len(obs.trained)
  /\ start_epoch >= NumEpochs => obs.ckptOps = 0

\* C22: once the main loop is entered it terminates, provided the worker keeps
\* running and its passes return: it runs the epochs start_epoch, ...,
\* epochs-1 in increasing order, each once, and then the worker completes; with
\* start_epoch >= epochs it completes without a training pass, a validation
\* or a checkpoint write. (A killed process is outside the claim. A process
\* that an uncaught exception ended has exited: it executes nothing more.)
C22_LoopRunsToCompletion == LoopEntered ~> (Completed \/ pc = "crashed")

\* What holds of the loop: it ends, completed as above or left by the
\* exception of a failed checkpoint write.
LoopEndsOrRaises == LoopEntered ~> (Completed \/ pc \in {"crashed", "aborted"})
====
